---- MODULE Spec2Model ----
(***************************************************************************)
(* The Lucky daemon RPC service (src/src/daemon.rs): the shared status     *)
(* store behind an RwLock, the consolidation of script statuses into one   *)
(* Juju status, the three varlink handlers and the stop flag.               *)
(*                                                                         *)
(* Every handler invocation is a call c \in Calls with its own program     *)
(* counter pc[c]; a step of the model is one lock operation, one loop      *)
(* iteration, one collaborator call or one reply of one call.              *)
(***************************************************************************)
EXTENDS Integers, Sequences, FiniteSets, TLC

\* Number of handler invocations the varlink server runs (concurrently).
NCalls == 2

Calls == 1..NCalls

\* Script ids the clients of the daemon use in SetStatus requests.
ScriptIds == {"a", "b"}

\* Script ids of the stores the consolidation alone is checked on.
StoreIds == {"a", "b", "c"}

\* Option<String>
None == [some |-> FALSE, val |-> ""]

Some(v) == [some |-> TRUE, val |-> v]

Messages == {None, Some(""), Some("x"), Some("y")}

\* crate::types::ScriptState, least to most precedent.
StateOrder == <<"Active", "Maintenance", "Waiting", "Blocked", "Error">>

ScriptStates == {StateOrder[i] : i \in 1..Len(StateOrder)}

Rank(s) == CHOOSE i \in 1..Len(StateOrder) : StateOrder[i] = s

\* ScriptState's derived ordering, `a > b`.
StateGreater(a, b) == Rank(a) > Rank(b)

\* ScriptState::default()
ScriptStateDefault == StateOrder[1]

\* crate::types::ScriptStatus
ScriptStatuses == [state : ScriptStates, message : Messages]

\* The statuses clients send in SetStatus requests (rpc::ScriptStatus).
RpcStatuses ==
    { [state |-> "Active", message |-> None],
      [state |-> "Blocked", message |-> Some("x")] }

\* `status.into()`: rpc::ScriptStatus -> ScriptStatus, field by field.
IntoScriptStatus(status) == [state |-> status.state, message |-> status.message]

\* Error texts of the collaborators (`e.to_string()`).
CharmDirErrors == {"charm dir not found"}

SinkErrors == {"status-set failed"}

VARIABLES
    stop_listening,   \* LuckyDaemon.stop_listening (AtomicBool)
    script_statuses,  \* LuckyDaemon.script_statuses (the HashMap)
    table,            \* the order in which the HashMap yields its entries
    lock,             \* the RwLock around script_statuses: its guards
    pc,               \* where each call is in its handler
    req,              \* each call's request (method and arguments)
    iter,             \* get_juju_status: entries values() has yet to yield
    visited,          \* get_juju_status: entries the loop has processed
    juju_state,       \* get_juju_status: local juju_state
    juju_message,     \* get_juju_status: local juju_message
    charm_dir,        \* trigger_hook: result of config::get_charm_dir()
    sink_result,      \* set_status: result of crate::juju::set_status()
    continues,        \* the call's `continues` flag (set_continues)
    replies,          \* replies each call has written to its connection
    result,           \* what each handler returned: "none", "Ok" or "Err"
    juju,             \* the status last accepted by the Juju status sink
    last_insert       \* per script id, the call whose insert came last

vars == << stop_listening, script_statuses, table, lock, pc, req, iter, visited,
           juju_state, juju_message, charm_dir, sink_result, continues,
           replies, result, juju, last_insert >>

\* The locals of get_juju_status.
aggVars == << iter, visited, juju_state, juju_message >>

\* What the handlers of one call write to its connection and return.
callVars == << continues, replies, result >>

NoRequest == [method |-> "none", script_id |-> "", status |-> [state |-> ScriptStateDefault, message |-> None]]

SetStatusRequest(id, status) == [method |-> "SetStatus", script_id |-> id, status |-> status]

TriggerHookRequest == [method |-> "TriggerHook", script_id |-> "", status |-> [state |-> ScriptStateDefault, message |-> None]]

StopDaemonRequest == [method |-> "StopDaemon", script_id |-> "", status |-> [state |-> ScriptStateDefault, message |-> None]]

\* A reply on the wire: a method reply or an error reply, with the
\* `continues` tag it was sent under and its parameter.
Reply(cont, payload) == [kind |-> "reply", continues |-> cont, payload |-> payload]

OsError(cont, what) == [kind |-> "OsError", continues |-> cont, payload |-> Some(what)]

\* All orders in which HashMap::values() may yield the entries of keys S.
Orders(S) ==
    { s \in [1..Cardinality(S) -> S] : \A i, j \in 1..Cardinality(S) : s[i] = s[j] => i = j }

\* All contents a store over the script ids S can have.
Stores(S) == UNION { [D -> ScriptStatuses] : D \in SUBSET S }

\* An insert that builds the map anew from the one entry.
InsertAlone(m, k, v) == [x \in {k} |-> v]


\* An insert that keeps the entry a key already has (entry().or_insert()).
InsertIfAbsent(m, k, v) ==
    [x \in DOMAIN m \cup {k} |-> IF x \in DOMAIN m THEN m[x] ELSE v]


\* An insert that, for a key already there, appends the new message to the
\* one the entry has instead of replacing the entry.
InsertAppend(m, k, v) ==
    [x \in DOMAIN m \cup {k} |->
        IF x # k THEN m[x]
        ELSE IF k \in DOMAIN m /\ m[k].message.some /\ v.message.some
             THEN [state |-> v.state,
                   message |-> Some(m[k].message.val \o ", " \o v.message.val)]
             ELSE v]

\* HashMap::insert
Insert(m, k, v) == [x \in DOMAIN m \cup {k} |-> IF x = k THEN v ELSE m[x]]

\* The iteration orders the table can have after an insert of key k: an
\* existing key keeps its slot, a new key lands in any slot and may make the
\* table grow and rehash. The order is not specified by HashMap.
Rehash(m, order, k) ==
    IF k \in DOMAIN m THEN {order} ELSE Orders(DOMAIN m \cup {k})

\* LuckyDaemon::new / Default: flag as passed in (false), empty store.
Init ==
    /\ stop_listening = FALSE
    /\ script_statuses = << >>
    /\ table = << >>
    /\ lock = [writer |-> {}, readers |-> {}]
    /\ pc = [c \in Calls |-> "idle"]
    /\ req = [c \in Calls |-> NoRequest]
    /\ iter = [c \in Calls |-> << >>]
    /\ visited = [c \in Calls |-> << >>]
    /\ juju_state = [c \in Calls |-> ScriptStateDefault]
    /\ juju_message = [c \in Calls |-> None]
    /\ charm_dir = [c \in Calls |-> "none"]
    /\ sink_result = [c \in Calls |-> "none"]
    /\ continues = [c \in Calls |-> FALSE]
    /\ replies = [c \in Calls |-> << >>]
    /\ result = [c \in Calls |-> "none"]
    /\ juju = [state |-> ScriptStateDefault, message |-> None]
    /\ last_insert = [id \in ScriptIds |-> {}]

\* Appends one reply to call c's connection.
Send(c, r) == replies' = [replies EXCEPT ![c] = Append(@, r)]

\* The handler of call c returns r ("Ok", or "Err" when a reply could not
\* be written and `?` propagated the error).
Return(c, r) ==
    /\ pc' = [pc EXCEPT ![c] = "done"]
    /\ result' = [result EXCEPT ![c] = r]

(***************************************************************************)
(* The varlink server dispatches an incoming request to its handler.       *)
(***************************************************************************)
CallSetStatus(c) ==
    /\ pc[c] = "idle"
    /\ \E id \in ScriptIds, status \in RpcStatuses :
          req' = [req EXCEPT ![c] = SetStatusRequest(id, status)]
    /\ pc' = [pc EXCEPT ![c] = "write"]
    /\ UNCHANGED << stop_listening, script_statuses, table, lock, aggVars, charm_dir,
                    sink_result, callVars, juju, last_insert >>

CallTriggerHook(c) ==
    /\ pc[c] = "idle"
    /\ req' = [req EXCEPT ![c] = TriggerHookRequest]
    /\ pc' = [pc EXCEPT ![c] = "get_charm_dir"]
    /\ UNCHANGED << stop_listening, script_statuses, table, lock, aggVars, charm_dir,
                    sink_result, callVars, juju, last_insert >>

CallStopDaemon(c) ==
    /\ pc[c] = "idle"
    /\ req' = [req EXCEPT ![c] = StopDaemonRequest]
    /\ pc' = [pc EXCEPT ![c] = "store"]
    /\ UNCHANGED << stop_listening, script_statuses, table, lock, aggVars, charm_dir,
                    sink_result, callVars, juju, last_insert >>

(***************************************************************************)
(* get_juju_status                                                         *)
(***************************************************************************)
\* The state of the entry visited last wins, whatever its precedence.
ConsolidateStateLast(state, status) == status.state


\* The comparison made against the default state instead of the running one.
ConsolidateStateOverDefault(state, status) ==
    IF StateGreater(status.state, ScriptStateDefault) THEN status.state ELSE state

\* `if status.state > juju_state { juju_state = status.state; }`
ConsolidateState(state, status) ==
    IF StateGreater(status.state, state) THEN status.state ELSE state

\* The join with its two operands swapped.
ConsolidateMessageSwapped(message, status) ==
    IF status.message.some
    THEN IF message.some
         THEN Some(status.message.val \o ", " \o message.val)
         ELSE Some(status.message.val)
    ELSE message

\* `if let Some(message) = &status.message { ... }`
ConsolidateMessage(message, status) ==
    IF status.message.some
    THEN IF message.some
         THEN Some(message.val \o ", " \o status.message.val)
         ELSE Some(status.message.val)
    ELSE message

\* `self.script_statuses.read().unwrap().values()`: takes the read guard,
\* which lives until the loop ends; values() yields in the table's order.
GetJujuStatusRead(c) ==
    /\ pc[c] = "get_juju_status"
    /\ lock.writer = {}
    /\ lock' = [lock EXCEPT !.readers = @ \cup {c}]
    /\ juju_state' = [juju_state EXCEPT ![c] = ScriptStateDefault]
    /\ juju_message' = [juju_message EXCEPT ![c] = None]
    /\ iter' = [iter EXCEPT ![c] = table]
    /\ visited' = [visited EXCEPT ![c] = << >>]
    /\ pc' = [pc EXCEPT ![c] = "for"]
    /\ UNCHANGED << stop_listening, script_statuses, table, req, charm_dir,
                    sink_result, callVars, juju, last_insert >>

\* One iteration of `for status in ...values()`.
GetJujuStatusFor(c) ==
    /\ pc[c] = "for"
    /\ iter[c] # << >>
    /\ LET status == script_statuses[Head(iter[c])] IN
          /\ juju_state' = [juju_state EXCEPT ![c] = ConsolidateState(@, status)]
          /\ juju_message' = [juju_message EXCEPT ![c] = ConsolidateMessage(@, status)]
    /\ visited' = [visited EXCEPT ![c] = Append(@, Head(iter[c]))]
    /\ iter' = [iter EXCEPT ![c] = Tail(@)]
    /\ UNCHANGED << stop_listening, script_statuses, table, lock, pc, req, charm_dir,
                    sink_result, callVars, juju, last_insert >>


\* The read guard kept alive past the loop, into the sink call and beyond.
GetJujuStatusReturnHoldsGuard(c) ==
    /\ pc[c] = "for"
    /\ iter[c] = << >>
    /\ visited' = [visited EXCEPT ![c] = << >>]
    /\ pc' = [pc EXCEPT ![c] = "juju_set_status"]
    /\ UNCHANGED << stop_listening, script_statuses, table, lock, req, iter,
                    juju_state, juju_message, charm_dir, sink_result, callVars,
                    juju, last_insert >>

\* The loop is over: the read guard is dropped and the status returned.
GetJujuStatusReturn(c) ==
    /\ pc[c] = "for"
    /\ iter[c] = << >>
    /\ lock' = [lock EXCEPT !.readers = @ \ {c}]
    /\ visited' = [visited EXCEPT ![c] = << >>]
    /\ pc' = [pc EXCEPT ![c] = "juju_set_status"]
    /\ UNCHANGED << stop_listening, script_statuses, table, req, iter, juju_state,
                    juju_message, charm_dir, sink_result, callVars, juju,
                    last_insert >>


RECURSIVE AggregateUpTo(_, _, _)
\* get_juju_status over the first n entries of the given order of store m.
AggregateUpTo(m, order, n) ==
    IF n = 0
    THEN [state |-> ScriptStateDefault, message |-> None]
    ELSE LET prev == AggregateUpTo(m, order, n - 1)
             status == m[order[n]]
         IN  [state |-> ConsolidateState(prev.state, status),
              message |-> ConsolidateMessage(prev.message, status)]

\* get_juju_status as a function of the store and its iteration order.
Aggregate(m, order) == AggregateUpTo(m, order, Len(order))

(***************************************************************************)
(* set_status                                                              *)
(***************************************************************************)

\* A write guard handed out while read guards are still held.
SetStatusWriteOverReaders(c) ==
    /\ pc[c] = "write"
    /\ lock.writer = {}
    /\ lock' = [lock EXCEPT !.writer = {c}]
    /\ pc' = [pc EXCEPT ![c] = "insert"]
    /\ UNCHANGED << stop_listening, script_statuses, table, req, aggVars, charm_dir,
                    sink_result, callVars, juju, last_insert >>

\* `self.script_statuses.write()`: blocks until no guard is held.
SetStatusWrite(c) ==
    /\ pc[c] = "write"
    /\ lock.writer = {}
    /\ lock.readers = {}
    /\ lock' = [lock EXCEPT !.writer = {c}]
    /\ pc' = [pc EXCEPT ![c] = "insert"]
    /\ UNCHANGED << stop_listening, script_statuses, table, req, aggVars, charm_dir,
                    sink_result, callVars, juju, last_insert >>


\* The write guard taken and dropped without the insert being done (the
\* status goes to a copy of the map).
SetStatusInsertIntoCopy(c) ==
    /\ pc[c] = "insert"
    /\ lock' = [lock EXCEPT !.writer = {}]
    /\ pc' = [pc EXCEPT ![c] = "get_juju_status"]
    /\ UNCHANGED << stop_listening, script_statuses, table, req, aggVars,
                    charm_dir, sink_result, callVars, juju, last_insert >>


\* The write guard bound to a variable that lives to the end of the handler:
\* it is still held when get_juju_status asks for the read guard.
SetStatusInsertKeepsGuard(c) ==
    /\ pc[c] = "insert"
    /\ script_statuses' =
          Insert(script_statuses, req[c].script_id, IntoScriptStatus(req[c].status))
    /\ table' \in Rehash(script_statuses, table, req[c].script_id)
    /\ last_insert' = [last_insert EXCEPT ![req[c].script_id] = {c}]
    /\ pc' = [pc EXCEPT ![c] = "get_juju_status"]
    /\ UNCHANGED << stop_listening, lock, req, aggVars, charm_dir, sink_result,
                    callVars, juju >>

\* `.insert(script_id, status)`; the write guard, a temporary, is dropped
\* at the end of the statement.
SetStatusInsert(c) ==
    /\ pc[c] = "insert"
    /\ script_statuses' =
          Insert(script_statuses, req[c].script_id, IntoScriptStatus(req[c].status))
    /\ table' \in Rehash(script_statuses, table, req[c].script_id)
    /\ last_insert' = [last_insert EXCEPT ![req[c].script_id] = {c}]
    /\ lock' = [lock EXCEPT !.writer = {}]
    /\ pc' = [pc EXCEPT ![c] = "get_juju_status"]
    /\ UNCHANGED << stop_listening, req, aggVars, charm_dir, sink_result,
                    callVars, juju >>

\* `crate::juju::set_status(self.get_juju_status())`: the sink accepts the
\* consolidated status or fails; on failure `or_else` runs next.
SetStatusJujuSetStatus(c) ==
    /\ pc[c] = "juju_set_status"
    /\ \/ /\ juju' = [state |-> juju_state[c], message |-> juju_message[c]]
          /\ sink_result' = [sink_result EXCEPT ![c] = "Ok"]
          /\ pc' = [pc EXCEPT ![c] = "reply"]
       \/ /\ \E e \in SinkErrors : sink_result' = [sink_result EXCEPT ![c] = e]
          /\ pc' = [pc EXCEPT ![c] = "reply_os_error"]
          /\ UNCHANGED juju
    /\ juju_state' = [juju_state EXCEPT ![c] = ScriptStateDefault]
    /\ juju_message' = [juju_message EXCEPT ![c] = None]
    /\ UNCHANGED << stop_listening, script_statuses, table, lock, req, iter, visited,
                    charm_dir, callVars, last_insert >>


\* The error path taking the write guard and never dropping it, which leaves
\* the lock unusable for every later call.
SetStatusReplyOsErrorHoldsLock(c) ==
    /\ pc[c] = "reply_os_error"
    /\ lock' = [lock EXCEPT !.writer = {c}]
    /\ \/ /\ Send(c, OsError(continues[c], sink_result[c]))
          /\ pc' = [pc EXCEPT ![c] = "reply"]
          /\ UNCHANGED result
       \/ /\ Return(c, "Err")
          /\ UNCHANGED replies
    /\ UNCHANGED << stop_listening, script_statuses, table, req, aggVars,
                    charm_dir, sink_result, continues, juju, last_insert >>

\* The error path undoing the insert: the entry of the call is removed.
SetStatusReplyOsErrorRollback(c) ==
    /\ pc[c] = "reply_os_error"
    /\ script_statuses' =
          [k \in DOMAIN script_statuses \ {req[c].script_id} |-> script_statuses[k]]
    /\ table' = SelectSeq(table, LAMBDA k : k # req[c].script_id)
    /\ \/ /\ Send(c, OsError(continues[c], sink_result[c]))
          /\ pc' = [pc EXCEPT ![c] = "reply"]
          /\ UNCHANGED result
       \/ /\ Return(c, "Err")
          /\ UNCHANGED replies
    /\ UNCHANGED << stop_listening, lock, req, aggVars, charm_dir, sink_result,
                    continues, juju, last_insert >>

\* `.or_else(|e| call.reply_os_error(e.to_string()))?`: when the error reply
\* is written or_else yields Ok(()) and the handler goes on to `call.reply()`;
\* when it cannot be written `?` returns the error.
SetStatusReplyOsError(c) ==
    /\ pc[c] = "reply_os_error"
    /\ \/ /\ Send(c, OsError(continues[c], sink_result[c]))
          /\ pc' = [pc EXCEPT ![c] = "reply"]
          /\ UNCHANGED result
       \/ /\ Return(c, "Err")
          /\ UNCHANGED replies
    /\ UNCHANGED << stop_listening, script_statuses, table, lock, req, aggVars,
                    charm_dir, sink_result, continues, juju, last_insert >>

\* `call.reply()?; Ok(())`
SetStatusReply(c) ==
    /\ pc[c] = "reply"
    /\ \/ /\ Send(c, Reply(continues[c], None))
          /\ Return(c, "Ok")
       \/ /\ Return(c, "Err")
          /\ UNCHANGED replies
    /\ UNCHANGED << stop_listening, script_statuses, table, lock, req, aggVars,
                    charm_dir, sink_result, continues, juju, last_insert >>

(***************************************************************************)
(* trigger_hook                                                            *)
(***************************************************************************)

\* A failure to find the charm directory treated as fatal: the daemon is
\* told to stop.
TriggerHookGetCharmDirFatal(c) ==
    /\ pc[c] = "get_charm_dir"
    /\ \/ /\ charm_dir' = [charm_dir EXCEPT ![c] = "Ok"]
          /\ pc' = [pc EXCEPT ![c] = "reply_hello"]
          /\ UNCHANGED stop_listening
       \/ /\ \E e \in CharmDirErrors : charm_dir' = [charm_dir EXCEPT ![c] = e]
          /\ pc' = [pc EXCEPT ![c] = "hook_os_error"]
          /\ stop_listening' = TRUE
    /\ UNCHANGED << script_statuses, table, lock, req, aggVars,
                    sink_result, callVars, juju, last_insert >>

\* `match config::get_charm_dir()`
TriggerHookGetCharmDir(c) ==
    /\ pc[c] = "get_charm_dir"
    /\ \/ /\ charm_dir' = [charm_dir EXCEPT ![c] = "Ok"]
          /\ pc' = [pc EXCEPT ![c] = "reply_hello"]
       \/ /\ \E e \in CharmDirErrors : charm_dir' = [charm_dir EXCEPT ![c] = e]
          /\ pc' = [pc EXCEPT ![c] = "hook_os_error"]
    /\ UNCHANGED << stop_listening, script_statuses, table, lock, req, aggVars,
                    sink_result, callVars, juju, last_insert >>

\* The error arm without its `return Ok(())`: the handler falls through.
TriggerHookReplyOsErrorNoReturn(c) ==
    /\ pc[c] = "hook_os_error"
    /\ \/ /\ Send(c, OsError(continues[c], charm_dir[c]))
          /\ pc' = [pc EXCEPT ![c] = "reply_hello"]
          /\ UNCHANGED result
       \/ /\ Return(c, "Err")
          /\ UNCHANGED replies
    /\ UNCHANGED << stop_listening, script_statuses, table, lock, req, aggVars,
                    charm_dir, sink_result, continues, juju, last_insert >>

\* `call.reply_os_error(e.to_string())?; return Ok(())`
TriggerHookReplyOsError(c) ==
    /\ pc[c] = "hook_os_error"
    /\ \/ /\ Send(c, OsError(continues[c], charm_dir[c]))
          /\ Return(c, "Ok")
       \/ /\ Return(c, "Err")
          /\ UNCHANGED replies
    /\ UNCHANGED << stop_listening, script_statuses, table, lock, req, aggVars,
                    charm_dir, sink_result, continues, juju, last_insert >>

\* `call.set_continues(true); call.reply(Some("Hello fello!".into()))?;`
TriggerHookReplyHello(c) ==
    /\ pc[c] = "reply_hello"
    /\ continues' = [continues EXCEPT ![c] = TRUE]
    /\ \/ /\ Send(c, Reply(TRUE, Some("Hello fello!")))
          /\ pc' = [pc EXCEPT ![c] = "reply_goodbye"]
          /\ UNCHANGED result
       \/ /\ Return(c, "Err")
          /\ UNCHANGED replies
    /\ UNCHANGED << stop_listening, script_statuses, table, lock, req, aggVars,
                    charm_dir, sink_result, juju, last_insert >>

\* `call.reply(Some("Goodbye dude!".into()))?;`
TriggerHookReplyGoodbye(c) ==
    /\ pc[c] = "reply_goodbye"
    /\ \/ /\ Send(c, Reply(continues[c], Some("Goodbye dude!")))
          /\ pc' = [pc EXCEPT ![c] = "reply_none"]
          /\ UNCHANGED result
       \/ /\ Return(c, "Err")
          /\ UNCHANGED replies
    /\ UNCHANGED << stop_listening, script_statuses, table, lock, req, aggVars,
                    charm_dir, sink_result, continues, juju, last_insert >>

\* The last reply without `call.set_continues(false)` before it.
TriggerHookReplyNoneContinues(c) ==
    /\ pc[c] = "reply_none"
    /\ \/ /\ Send(c, Reply(continues[c], None))
          /\ Return(c, "Ok")
       \/ /\ Return(c, "Err")
          /\ UNCHANGED replies
    /\ UNCHANGED << stop_listening, script_statuses, table, lock, req, aggVars,
                    charm_dir, sink_result, continues, juju, last_insert >>

\* `call.set_continues(false); call.reply(None)?; Ok(())`
TriggerHookReplyNone(c) ==
    /\ pc[c] = "reply_none"
    /\ continues' = [continues EXCEPT ![c] = FALSE]
    /\ \/ /\ Send(c, Reply(FALSE, None))
          /\ Return(c, "Ok")
       \/ /\ Return(c, "Err")
          /\ UNCHANGED replies
    /\ UNCHANGED << stop_listening, script_statuses, table, lock, req, aggVars,
                    charm_dir, sink_result, juju, last_insert >>

(***************************************************************************)
(* stop_daemon                                                             *)
(***************************************************************************)
\* The flag flipped (fetch_xor) instead of stored.
StopDaemonStoreFlip(c) ==
    /\ pc[c] = "store"
    /\ stop_listening' = ~stop_listening
    /\ pc' = [pc EXCEPT ![c] = "stop_reply"]
    /\ UNCHANGED << script_statuses, table, lock, req, aggVars, charm_dir,
                    sink_result, callVars, juju, last_insert >>

\* `self.stop_listening.store(true, Ordering::SeqCst);`
StopDaemonStore(c) ==
    /\ pc[c] = "store"
    /\ stop_listening' = TRUE
    /\ pc' = [pc EXCEPT ![c] = "stop_reply"]
    /\ UNCHANGED << script_statuses, table, lock, req, aggVars, charm_dir,
                    sink_result, callVars, juju, last_insert >>

\* A stop that refuses, with an error reply, when the flag was already set
\* by another call.
StopDaemonReplyOnce(c) ==
    /\ pc[c] = "stop_reply"
    /\ \/ /\ Send(c, IF \E d \in Calls \ {c} : req[d].method = "StopDaemon" /\ pc[d] = "done"
                     THEN OsError(continues[c], "already stopping")
                     ELSE Reply(continues[c], None))
          /\ Return(c, "Ok")
       \/ /\ Return(c, "Err")
          /\ UNCHANGED replies
    /\ UNCHANGED << stop_listening, script_statuses, table, lock, req, aggVars,
                    charm_dir, sink_result, continues, juju, last_insert >>

\* `call.reply()?; Ok(())`
StopDaemonReply(c) ==
    /\ pc[c] = "stop_reply"
    /\ \/ /\ Send(c, Reply(continues[c], None))
          /\ Return(c, "Ok")
       \/ /\ Return(c, "Err")
          /\ UNCHANGED replies
    /\ UNCHANGED << stop_listening, script_statuses, table, lock, req, aggVars,
                    charm_dir, sink_result, continues, juju, last_insert >>

GetJujuStatus(c) ==
    \/ GetJujuStatusRead(c)
    \/ GetJujuStatusFor(c)
    \/ GetJujuStatusReturn(c)

SetStatus(c) ==
    \/ SetStatusWrite(c)
    \/ SetStatusInsert(c)
    \/ GetJujuStatus(c)
    \/ SetStatusJujuSetStatus(c)
    \/ SetStatusReplyOsError(c)
    \/ SetStatusReply(c)

TriggerHook(c) ==
    \/ TriggerHookGetCharmDir(c)
    \/ TriggerHookReplyOsError(c)
    \/ TriggerHookReplyHello(c)
    \/ TriggerHookReplyGoodbye(c)
    \/ TriggerHookReplyNone(c)

StopDaemon(c) ==
    \/ StopDaemonStore(c)
    \/ StopDaemonReply(c)

Next ==
    \E c \in Calls :
       \/ CallSetStatus(c)
       \/ CallTriggerHook(c)
       \/ CallStopDaemon(c)
       \/ SetStatus(c)
       \/ TriggerHook(c)
       \/ StopDaemon(c)

Spec == Init /\ [][Next]_vars


\* The steps of call c's handler.
Handler(c) == SetStatus(c) \/ TriggerHook(c) \/ StopDaemon(c)

\* Every handler runs on a thread the scheduler does not starve, and the
\* collaborators (the sink, get_charm_dir, the connection) always return.
Fairness == \A c \in Calls : WF_vars(Handler(c))

SpecFair == Init /\ [][Next]_vars /\ Fairness

(***************************************************************************)
(* The consolidation on its own: one get_juju_status pass over every store *)
(* content, in every order of iteration.                                   *)
(***************************************************************************)
InitStore ==
    /\ stop_listening = FALSE
    /\ script_statuses \in Stores(StoreIds)
    /\ table \in Orders(DOMAIN script_statuses)
    /\ lock = [writer |-> {}, readers |-> {}]
    /\ pc = [c \in Calls |-> IF c = 1 THEN "get_juju_status" ELSE "idle"]
    /\ req = [c \in Calls |-> NoRequest]
    /\ iter = [c \in Calls |-> << >>]
    /\ visited = [c \in Calls |-> << >>]
    /\ juju_state = [c \in Calls |-> ScriptStateDefault]
    /\ juju_message = [c \in Calls |-> None]
    /\ charm_dir = [c \in Calls |-> "none"]
    /\ sink_result = [c \in Calls |-> "none"]
    /\ continues = [c \in Calls |-> FALSE]
    /\ replies = [c \in Calls |-> << >>]
    /\ result = [c \in Calls |-> "none"]
    /\ juju = [state |-> ScriptStateDefault, message |-> None]
    /\ last_insert = [id \in ScriptIds |-> {}]

NextStore == \E c \in Calls : GetJujuStatus(c)

SpecStore == InitStore /\ [][NextStore]_vars


(***************************************************************************)
(* One set_status call on its own: SetStatus(id, status) for every id and  *)
(* status, against every store content over the script ids.                *)
(***************************************************************************)
InitSet ==
    /\ stop_listening = FALSE
    /\ script_statuses \in Stores(ScriptIds)
    /\ table \in Orders(DOMAIN script_statuses)
    /\ lock = [writer |-> {}, readers |-> {}]
    /\ pc = [c \in Calls |-> IF c = 1 THEN "write" ELSE "idle"]
    /\ \E id \in ScriptIds, status \in ScriptStatuses :
          req = [c \in Calls |-> IF c = 1 THEN SetStatusRequest(id, status) ELSE NoRequest]
    /\ iter = [c \in Calls |-> << >>]
    /\ visited = [c \in Calls |-> << >>]
    /\ juju_state = [c \in Calls |-> ScriptStateDefault]
    /\ juju_message = [c \in Calls |-> None]
    /\ charm_dir = [c \in Calls |-> "none"]
    /\ sink_result = [c \in Calls |-> "none"]
    /\ continues = [c \in Calls |-> FALSE]
    /\ replies = [c \in Calls |-> << >>]
    /\ result = [c \in Calls |-> "none"]
    /\ juju = [state |-> ScriptStateDefault, message |-> None]
    /\ last_insert = [id \in ScriptIds |-> {}]

NextSet == \E c \in Calls : SetStatus(c)

SpecSet == InitSet /\ [][NextSet]_vars

(***************************************************************************)
(* Properties                                                              *)
(***************************************************************************)
\* Call c has finished the loop of get_juju_status and still holds the
\* read guard: juju_state[c], juju_message[c] are what the pass returns.
Consolidated(c) == pc[c] = "for" /\ iter[c] = << >>

\* The most precedent state among the entries of m, the default if none.
MaxStateOf(m) ==
    IF DOMAIN m = {}
    THEN ScriptStateDefault
    ELSE CHOOSE s \in {m[k].state : k \in DOMAIN m} :
            \A k \in DOMAIN m : Rank(m[k].state) <= Rank(s)

RECURSIVE JoinStrings(_)
\* The strings of a non-empty sequence, joined with ", ".
JoinStrings(ss) ==
    IF Len(ss) = 1
    THEN ss[1]
    ELSE JoinStrings(SubSeq(ss, 1, Len(ss) - 1)) \o ", " \o ss[Len(ss)]

\* The messages of the entries of m that satisfy Contributes, taken in the
\* given order of keys and joined; None when there is none.
Joined(m, order, Contributes(_)) ==
    LET ks == SelectSeq(order, LAMBDA k : k \in DOMAIN m /\ Contributes(m[k].message))
    IN  IF ks = << >>
        THEN None
        ELSE Some(JoinStrings([i \in 1..Len(ks) |-> m[ks[i]].message.val]))

\* The script ids in ascending (lexicographic) order.
IdOrder == << "a", "b", "c" >>

IsPresent(message) == message.some

IsNonEmpty(message) == message.some /\ message.val # ""

\* C1: whatever the store holds and in whatever order its entries are
\* visited, the consolidated state is the maximum of the stored states, and
\* the default (minimum) state when the store is empty.
C1_StateIsMaximum ==
    \A c \in Calls : Consolidated(c) => juju_state[c] = MaxStateOf(script_statuses)

\* A pass over three entries whose most precedent state was visited first.
C1_Witness ==
    /\ Consolidated(1)
    /\ DOMAIN script_statuses = StoreIds
    /\ script_statuses[table[1]].state = "Error"
    /\ script_statuses[table[2]].state = "Waiting"
    /\ script_statuses[table[3]].state = "Active"
    /\ juju_state[1] = "Error"

\* C2: a SetStatus call that returns has written exactly one reply: the
\* plain reply when the sink accepted the status, the OsError reply with the
\* sink's message when the sink failed.
C2_ExactlyOneReply ==
    \A c \in Calls :
       req[c].method = "SetStatus" /\ pc[c] = "done" /\ result[c] = "Ok" =>
          /\ sink_result[c] = "Ok" => replies[c] = << Reply(FALSE, None) >>
          /\ sink_result[c] \in SinkErrors =>
                replies[c] = << OsError(FALSE, sink_result[c]) >>

C4_OnlyNonEmptyMessages ==
    \A c \in Calls :
       Consolidated(c) => juju_message[c] = Joined(script_statuses, table, IsNonEmpty)

\* The status call c wrote, as the store holds it.
Written(c) == IntoScriptStatus(req[c].status)

\* Call c's entry is in the store as c wrote it.
Stored(c) ==
    /\ req[c].script_id \in DOMAIN script_statuses
    /\ script_statuses[req[c].script_id] = Written(c)

\* C5: after SetStatus(id, s) met a failing sink, the store maps id to s for
\* as long as no later insert to id has overwritten it.
C5_NotRolledBack ==
    \A c \in Calls :
       /\ req[c].method = "SetStatus"
       /\ sink_result[c] \in SinkErrors
       /\ last_insert[req[c].script_id] = {c}
       => Stored(c)

\* A call whose sink failed has returned, another call has written the
\* other id and returned, and the failed call's entry is still there.
C5_Witness ==
    \E c, d \in Calls :
       /\ req[c].method = "SetStatus" /\ req[d].method = "SetStatus"
       /\ req[c].script_id # req[d].script_id
       /\ sink_result[c] \in SinkErrors
       /\ pc[c] = "done" /\ pc[d] = "done"
       /\ sink_result[d] = "Ok"
       /\ Stored(c)

\* C6: once get_charm_dir has succeeded, a TriggerHook call writes only
\* method replies; every reply but the last carries `continues`, a reply
\* without it has no payload and is the last one, after which the handler
\* has returned; and a handler that returns Ok has written that last reply.
C6_StreamShape ==
    \A c \in Calls :
       req[c].method = "TriggerHook" /\ charm_dir[c] = "Ok" =>
          /\ \A i \in 1..Len(replies[c]) :
                /\ replies[c][i].kind = "reply"
                /\ ~replies[c][i].continues =>
                      /\ i = Len(replies[c])
                      /\ replies[c][i].payload = None
                      /\ pc[c] = "done"
          /\ pc[c] = "done" /\ result[c] = "Ok" =>
                /\ Len(replies[c]) >= 1
                /\ ~replies[c][Len(replies[c])].continues

\* A hook call that streamed two replies and the terminal one.
C6_Witness ==
    \E c \in Calls :
       /\ req[c].method = "TriggerHook"
       /\ charm_dir[c] = "Ok"
       /\ pc[c] = "done" /\ result[c] = "Ok"
       /\ Len(replies[c]) = 3
       /\ replies[c][1].continues /\ replies[c][2].continues

\* C7: when get_charm_dir fails, the only reply a TriggerHook call ever
\* writes is one OsError reply with the error's text and without
\* `continues`, and a handler that returns Ok has written it.
C7_ContextFailure ==
    \A c \in Calls :
       req[c].method = "TriggerHook" /\ charm_dir[c] \in CharmDirErrors =>
          /\ Len(replies[c]) <= 1
          /\ \A i \in 1..Len(replies[c]) :
                replies[c][i] = OsError(FALSE, charm_dir[c])
          /\ pc[c] = "done" /\ result[c] = "Ok" => Len(replies[c]) = 1

\* A hook call that failed to find the charm directory and has returned.
C7_Witness ==
    \E c \in Calls :
       /\ req[c].method = "TriggerHook"
       /\ charm_dir[c] \in CharmDirErrors
       /\ pc[c] = "done" /\ result[c] = "Ok"
       /\ replies[c] = << OsError(FALSE, charm_dir[c]) >>

\* C8: the flag starts false, no step takes it from true to false, and the
\* only step that changes it is the store of stop_daemon.
C8_FlagOneWay ==
    /\ stop_listening = FALSE
    /\ [][ /\ stop_listening => stop_listening'
           /\ stop_listening' # stop_listening =>
                 \E c \in Calls : pc[c] = "store" /\ pc'[c] = "stop_reply"
        ]_vars

\* The flag is set and a SetStatus call is between its insert and its reply.
C8_Witness ==
    /\ stop_listening
    /\ \E c \in Calls : req[c].method = "SetStatus" /\ pc[c] = "juju_set_status"

\* C9: every StopDaemon call leaves the flag true from its store on, writes
\* nothing but the plain reply, and has written it when it returns Ok, be it
\* the first such call or a later one.
C9_StopIdempotent ==
    \A c \in Calls :
       req[c].method = "StopDaemon" =>
          /\ pc[c] \in {"stop_reply", "done"} => stop_listening
          /\ \A i \in 1..Len(replies[c]) : replies[c][i] = Reply(FALSE, None)
          /\ pc[c] = "done" /\ result[c] = "Ok" => Len(replies[c]) = 1

\* Two StopDaemon calls have both returned Ok.
C9_Witness ==
    \E c, d \in Calls :
       /\ c # d
       /\ req[c].method = "StopDaemon" /\ req[d].method = "StopDaemon"
       /\ pc[c] = "done" /\ pc[d] = "done"
       /\ result[c] = "Ok" /\ result[d] = "Ok"
       /\ stop_listening

\* Call c has done its insert.
Inserted(c) ==
    /\ req[c].method = "SetStatus"
    /\ pc[c] \notin {"idle", "write", "insert"}

\* C10: a SetStatus call whose script id no other call writes finds, from
\* its insert on and in every interleaving, its status in the store.
C10_NoLostWrites ==
    \A c \in Calls :
       /\ Inserted(c)
       /\ \A d \in Calls \ {c} :
             req[d].method = "SetStatus" => req[d].script_id # req[c].script_id
       => Stored(c)

\* Two SetStatus calls to two different ids have both returned and the
\* store holds both entries.
C10_Witness ==
    \E c, d \in Calls :
       /\ req[c].method = "SetStatus" /\ req[d].method = "SetStatus"
       /\ req[c].script_id # req[d].script_id
       /\ pc[c] = "done" /\ pc[d] = "done"
       /\ Stored(c) /\ Stored(d)

\* C11: the write guard is exclusive, so the inserts to one id are totally
\* ordered; an id no call has inserted is absent from the store, and an id
\* that was inserted maps to the status of the call whose insert came last.
C11_LastWriteWins ==
    /\ Cardinality(lock.writer) <= 1
    /\ \A c \in Calls : pc[c] = "insert" <=> c \in lock.writer
    /\ DOMAIN script_statuses \subseteq ScriptIds
    /\ \A id \in ScriptIds :
          /\ Cardinality(last_insert[id]) <= 1
          /\ last_insert[id] = {} => id \notin DOMAIN script_statuses
          /\ \A c \in last_insert[id] :
                /\ req[c].method = "SetStatus" /\ req[c].script_id = id
                /\ Stored(c)

\* Two calls wrote different statuses to the same id and have returned;
\* the store holds the status of the one that inserted last.
C11_Witness ==
    \E c, d \in Calls :
       /\ c # d
       /\ req[c].method = "SetStatus" /\ req[d].method = "SetStatus"
       /\ req[c].script_id = req[d].script_id
       /\ Written(c) # Written(d)
       /\ pc[c] = "done" /\ pc[d] = "done"
       /\ last_insert[req[c].script_id] = {d}
       /\ Stored(d)

\* Call c does its insert in this step.
Inserts(c) == pc[c] = "insert" /\ pc'[c] = "get_juju_status"

\* C12: when SetStatus(id, s) inserts while the store already maps id to s
\* (the same report made again, no other write to id in between), the store
\* and the consolidated status, state and message, stay exactly as they were.
C12_IdempotentReReport ==
    [][ \A c \in Calls :
           Inserts(c) /\ Stored(c) =>
              /\ script_statuses' = script_statuses
              /\ Aggregate(script_statuses', table') = Aggregate(script_statuses, table)
      ]_vars

\* The same status was reported twice for one id and both calls returned.
C12_Witness ==
    \E c, d \in Calls :
       /\ c # d
       /\ req[c].method = "SetStatus" /\ req[d].method = "SetStatus"
       /\ req[c].script_id = req[d].script_id
       /\ Written(c) = Written(d)
       /\ Written(c).message = Some("x")
       /\ pc[c] = "done" /\ pc[d] = "done"
       /\ last_insert[req[c].script_id] = {d}
       /\ Stored(c)

\* Call c is about to replace its id's entry by one of strictly greater state.
RaisesState(c) ==
    /\ req[c].script_id \in DOMAIN script_statuses
    /\ StateGreater(Written(c).state, script_statuses[req[c].script_id].state)

\* C13: when an insert replaces an id's status by one of strictly greater
\* state, all other entries staying as they are, the consolidated state
\* after the insert is not less than the consolidated state before it.
C13_MonotonicPrecedence ==
    [][ \A c \in Calls :
           Inserts(c) /\ RaisesState(c) =>
              Rank(Aggregate(script_statuses', table').state)
                 >= Rank(Aggregate(script_statuses, table).state)
      ]_vars

\* A call holds the write guard and is about to raise its id's state from
\* Maintenance to Waiting while the other id, visited first, is Blocked.
C13_Witness ==
    \E c \in Calls :
       /\ pc[c] = "insert"
       /\ RaisesState(c)
       /\ DOMAIN script_statuses = ScriptIds
       /\ table[2] = req[c].script_id
       /\ script_statuses[table[1]].state = "Blocked"
       /\ script_statuses[table[2]].state = "Maintenance"
       /\ Written(c).state = "Waiting"

\* Call c has returned after the sink, or get_charm_dir, failed in it.
Failed(c) ==
    /\ pc[c] = "done"
    /\ \/ req[c].method = "SetStatus" /\ sink_result[c] \in SinkErrors
       \/ req[c].method = "TriggerHook" /\ charm_dir[c] \in CharmDirErrors

\* Call d is the only one inside its handler.
RunsAlone(d) ==
    /\ pc[d] \notin {"idle", "done"}
    /\ \A e \in Calls \ {d} : pc[e] \in {"idle", "done"}

\* C14: a call that failed holds no guard of the store lock, and beside it
\* every other call is served as ever: running alone it can always take
\* its next step, its insert is in the store until overwritten, what its
\* pass computes is the consolidation of the store, the sink accepts or
\* refuses it as for any call, and its stop sets the flag.
C14_FailuresContained ==
    \A c \in Calls :
       Failed(c) =>
          /\ c \notin lock.writer \cup lock.readers
          /\ \A d \in Calls \ {c} :
                /\ RunsAlone(d) => ENABLED (SetStatus(d) \/ TriggerHook(d) \/ StopDaemon(d))
                /\ Inserted(d) /\ last_insert[req[d].script_id] = {d} => Stored(d)
                /\ Consolidated(d) =>
                      /\ juju_state[d] = Aggregate(script_statuses, table).state
                      /\ juju_message[d] = Aggregate(script_statuses, table).message
                /\ req[d].method = "StopDaemon" /\ pc[d] \in {"stop_reply", "done"} =>
                      stop_listening

\* After one call's sink failure, another call overwrote the same id, had
\* the sink accept the consolidated status and returned Ok.
C14_Witness ==
    \E c, d \in Calls :
       /\ c # d
       /\ Failed(c) /\ req[c].method = "SetStatus"
       /\ req[d].method = "SetStatus" /\ req[d].script_id = req[c].script_id
       /\ Written(c) # Written(d)
       /\ pc[d] = "done" /\ result[d] = "Ok" /\ sink_result[d] = "Ok"
       /\ Stored(d)
       /\ juju = Aggregate(script_statuses, table)
       /\ juju.state = "Blocked"

\* Call c is inside crate::juju::set_status, the sink.
InSink(c) == pc[c] = "juju_set_status"

\* C15: a call that is inside the sink holds neither guard of the store
\* lock, so a call waiting for the write guard while every other call is
\* inside the sink, or not in set_status's locked parts at all, can take it.
C15_SinkOutsideLock ==
    /\ \A c \in Calls : InSink(c) => c \notin lock.writer \cup lock.readers
    /\ \A d \in Calls :
          /\ pc[d] = "write"
          /\ \E c \in Calls \ {d} : InSink(c)
          /\ \A e \in Calls \ {d} : pc[e] \notin {"insert", "for"}
          => ENABLED SetStatusWrite(d)

\* While one call is inside the sink another one holds the write guard
\* and is about to insert.
C15_Witness ==
    \E c, d \in Calls :
       /\ InSink(c)
       /\ pc[d] = "insert"
       /\ d \in lock.writer

\* C16: a pass of get_juju_status holds a read guard from before its first
\* read until after its last, no write guard is held together with a read
\* guard, and so at every point of a pass the entries it has read and has
\* yet to read are the store's, in the store's order, and what it has
\* computed so far is the consolidation of the entries read as they are now.
C16_ConsistentView ==
    /\ lock.writer # {} => lock.readers = {}
    /\ \A c \in Calls : pc[c] = "for" <=> c \in lock.readers
    /\ \A c \in Calls :
          pc[c] = "for" =>
             /\ visited[c] \o iter[c] = table
             /\ DOMAIN script_statuses = {table[i] : i \in 1..Len(table)}
             /\ juju_state[c] =
                   AggregateUpTo(script_statuses, visited[c], Len(visited[c])).state
             /\ juju_message[c] =
                   AggregateUpTo(script_statuses, visited[c], Len(visited[c])).message

\* Two passes read the store at the same time, one of them between the
\* first and the second of its two entries.
C16_Witness ==
    \E c, d \in Calls :
       /\ c # d
       /\ pc[c] = "for" /\ pc[d] = "for"
       /\ lock.readers = {c, d}
       /\ Len(visited[c]) = 1 /\ Len(iter[c]) = 1

\* C17: the store a SetStatus(id, s) call consolidates is one taken after
\* its own insert: throughout its pass the store has an entry for id, among
\* those the pass reads, that holds s or else the status of a call whose
\* insert to id came after.
C17_ObservesOwnWrite ==
    \A c \in Calls :
       req[c].method = "SetStatus" /\ pc[c] = "for" =>
          /\ req[c].script_id \in DOMAIN script_statuses
          /\ \E i \in 1..Len(visited[c] \o iter[c]) :
                (visited[c] \o iter[c])[i] = req[c].script_id
          /\ \/ last_insert[req[c].script_id] = {c} /\ Stored(c)
             \/ \E d \in Calls \ {c} :
                   /\ last_insert[req[c].script_id] = {d}
                   /\ req[d].script_id = req[c].script_id
                   /\ Stored(d)

\* A pass that finds in its own id's entry the different status of a call
\* that inserted after it, before the pass began.
C17_Witness ==
    \E c, d \in Calls :
       /\ c # d
       /\ req[c].method = "SetStatus" /\ pc[c] = "for"
       /\ req[d].method = "SetStatus" /\ req[d].script_id = req[c].script_id
       /\ last_insert[req[c].script_id] = {d}
       /\ Written(d) # Written(c)
       /\ Stored(d)

\* A pass of a call that misses the entry of a racing call to another id,
\* which still waits for the write guard.
C17_RacingWriteMissed ==
    \E c, d \in Calls :
       /\ req[c].method = "SetStatus" /\ pc[c] = "for"
       /\ req[d].method = "SetStatus" /\ pc[d] = "write"
       /\ req[d].script_id # req[c].script_id
       /\ req[d].script_id \notin DOMAIN script_statuses

\* This step is one of call c's handler (its dispatch included).
Moves(c) == pc'[c] # pc[c] \/ iter'[c] # iter[c]

\* The entry of id k, present or absent, is the same after the step.
EntryUnchanged(k) ==
    /\ k \in DOMAIN script_statuses <=> k \in DOMAIN script_statuses'
    /\ k \in DOMAIN script_statuses => script_statuses'[k] = script_statuses[k]

\* C18: no step of a TriggerHook call changes the store or the flag, no
\* step of a StopDaemon call changes the store, and no step of a
\* SetStatus(id, s) call changes the flag or the entry of another id; and
\* every change is a step of some call.
C18_Frame ==
    [][ /\ \E c \in Calls : Moves(c)
        /\ \A c \in Calls :
              Moves(c) =>
                 /\ req'[c].method = "TriggerHook" =>
                       /\ script_statuses' = script_statuses
                       /\ stop_listening' = stop_listening
                 /\ req'[c].method = "StopDaemon" =>
                       script_statuses' = script_statuses
                 /\ req'[c].method = "SetStatus" =>
                       /\ stop_listening' = stop_listening
                       /\ \A k \in ScriptIds \ {req'[c].script_id} : EntryUnchanged(k)
      ]_vars

\* A hook call that failed and a SetStatus call whose sink failed have both
\* returned; the store holds the one entry and the flag is not set.
C18_Witness ==
    \E c, d \in Calls :
       /\ req[c].method = "TriggerHook" /\ Failed(c)
       /\ req[d].method = "SetStatus" /\ Failed(d)
       /\ DOMAIN script_statuses = {req[d].script_id}
       /\ ~stop_listening

\* C19: once every call has returned, the sink having accepted the status
\* of every SetStatus call, the status the sink accepted last is the
\* consolidation of the store as it then is.
C19_SinkConverges ==
    /\ \A c \in Calls : pc[c] \in {"idle", "done"}
    /\ \A c \in Calls : req[c].method = "SetStatus" => sink_result[c] = "Ok"
    => juju = Aggregate(script_statuses, table)

\* Call c holds a guard of the store lock.
HoldsGuard(c) == c \in lock.writer \cup lock.readers

\* C20: a call that waits for the store lock holds no guard of it, and
\* under fair scheduling every dispatched call returns, having written its
\* last reply (one without `continues`) when it returns Ok.
C20_DeadlockFree ==
    \A c \in Calls :
       /\ [](pc[c] \in {"write", "get_juju_status"} => ~HoldsGuard(c))
       /\ [](pc[c] = "done" /\ result[c] = "Ok" =>
                /\ Len(replies[c]) >= 1
                /\ ~replies[c][Len(replies[c])].continues)
       /\ (pc[c] # "idle") ~> (pc[c] = "done")

\* A call waits for the write guard while another call's pass holds a
\* read guard.
C20_Witness ==
    \E c, d \in Calls :
       /\ pc[d] = "write"
       /\ pc[c] = "for"
       /\ c \in lock.readers

\* The safety half of C20 on its own: a waiting call holds no guard, and
\* whenever some call is inside its handler some handler can take a step.
C20_NoStuckCall ==
    /\ \A c \in Calls : pc[c] \in {"write", "get_juju_status"} => ~HoldsGuard(c)
    /\ (\E c \in Calls : pc[c] \notin {"idle", "done"}) => ENABLED (\E c \in Calls : Handler(c))

====
